---- MODULE Spec2Model ----
(***************************************************************************)
(* ics2text: scan a folder of calendar files, keep the events matching any *)
(* keyword, drop duplicates by UID, sort by start and write a text and a   *)
(* CSV report.  Text values are sequences of one-character strings, so     *)
(* that lower(), "in", split() and join() are computed, not assumed.       *)
(***************************************************************************)
EXTENDS Integers, Sequences, FiniteSets, TLC

VARIABLES
    readable,           \* whether os.listdir(folder_path) succeeds
    folder,             \* the folder in listing order: <<[name, wellformed, comps]>>
    keywords,           \* args.keywords
    pc,                 \* position of main
    fileIdx,            \* position of the loop of process_ics_files_in_folder
    events,             \* all_matching_events
    sorted_events,      \* result (a) of remove_duplicates_and_sort_events
    duplicate_count,    \* result (b)
    duplicate_details,  \* result (c): the (keyword, file) entries that exist
    keyword_count,      \* main's keyword_count dictionary
    outTxt,             \* merged_filtered_events.txt: [exists, lines]
    outCsv,             \* merged_filtered_events.csv: [exists, rows]
    error,              \* the exception that ended the run, "" if none
    run,                \* 1 for the first run of the program, 2 for the second
    first               \* the output files and duplicate results as they were when
                        \* the current run started (for run 2: what run 1 left)

vars == <<readable, folder, keywords, pc, fileIdx, events, sorted_events,
          duplicate_count, duplicate_details, keyword_count, outTxt, outCsv,
          error, run, first>>

----------------------------------------------------------------------------
(* Bounds of the model *)

MaxFiles == 2
MaxComps == 2
MaxKeywords == 2

----------------------------------------------------------------------------
(* Python text primitives *)

\* str.lower() on one character
LowerChar(c) ==
    CASE c = "A" -> "a" [] c = "B" -> "b" [] c = "C" -> "c" [] c = "D" -> "d"
      [] c = "E" -> "e" [] c = "F" -> "f" [] c = "G" -> "g" [] c = "H" -> "h"
      [] c = "I" -> "i" [] c = "J" -> "j" [] c = "K" -> "k" [] c = "L" -> "l"
      [] c = "M" -> "m" [] c = "N" -> "n" [] c = "O" -> "o" [] c = "P" -> "p"
      [] c = "Q" -> "q" [] c = "R" -> "r" [] c = "S" -> "s" [] c = "T" -> "t"
      [] c = "U" -> "u" [] c = "V" -> "v" [] c = "W" -> "w" [] c = "X" -> "x"
      [] c = "Y" -> "y" [] c = "Z" -> "z" [] OTHER -> c

\* str.lower()
Lower(s) == [i \in 1..Len(s) |-> LowerChar(s[i])]

\* the positions at which sep occurs in s
Occurrences(s, sep) ==
    {i \in 1..(Len(s) - Len(sep) + 1) : SubSeq(s, i, i + Len(sep) - 1) = sep}

\* needle in hay
Contains(needle, hay) == Len(needle) = 0 \/ Occurrences(hay, needle) # {}

\* hay.endswith(suffix)
EndsWith(hay, suffix) ==
    /\ Len(suffix) <= Len(hay)
    /\ SubSeq(hay, Len(hay) - Len(suffix) + 1, Len(hay)) = suffix

SetMin(S) == CHOOSE x \in S : \A y \in S : x <= y

RECURSIVE Split(_, _)
\* s.split(sep), sep not empty
Split(s, sep) ==
    LET occ == Occurrences(s, sep)
    IN  IF occ = {} THEN <<s>>
        ELSE LET i == SetMin(occ)
             IN  <<SubSeq(s, 1, i - 1)>>
                     \o Split(SubSeq(s, i + Len(sep), Len(s)), sep)

RECURSIVE Join(_, _)
\* sep.join(parts)
Join(parts, sep) ==
    IF Len(parts) = 0 THEN <<>>
    ELSE IF Len(parts) = 1 THEN parts[1]
    ELSE parts[1] \o sep \o Join(Tail(parts), sep)

\* str(None)
NoneStr == <<"N", "o", "n", "e">>

\* An optional property of a component, as component.get(name) returns it:
\* None when absent.
None == [some |-> FALSE, val |-> <<>>]
Some(v) == [some |-> TRUE, val |-> v]

\* str(component.get(name))
PyStr(f) == IF f.some THEN f.val ELSE NoneStr

Colon == <<":">>
CommaSpace == <<",", " ">>
Newline == <<"\n">>
IcsSuffix == <<".", "i", "c", "s">>

----------------------------------------------------------------------------
(* Timestamps *)

Digit(n) ==
    CASE n = 0 -> "0" [] n = 1 -> "1" [] n = 2 -> "2" [] n = 3 -> "3"
      [] n = 4 -> "4" [] n = 5 -> "5" [] n = 6 -> "6" [] n = 7 -> "7"
      [] n = 8 -> "8" [] n = 9 -> "9"

Pad2(n) == <<Digit((n \div 10) % 10), Digit(n % 10)>>
Pad4(n) == <<Digit((n \div 1000) % 10), Digit((n \div 100) % 10)>> \o Pad2(n)

\* dt.strftime('%Y-%m-%d %H:%M'): the seconds are dropped
Strftime(dt) ==
    Pad4(dt.Y) \o <<"-">> \o Pad2(dt.M) \o <<"-">> \o Pad2(dt.D) \o <<" ">>
        \o Pad2(dt.h) \o <<":">> \o Pad2(dt.m)

\* ord() of the characters a formatted timestamp is made of
Ord(c) ==
    CASE c = " " -> 32 [] c = "-" -> 45 [] c = "0" -> 48 [] c = "1" -> 49
      [] c = "2" -> 50 [] c = "3" -> 51 [] c = "4" -> 52 [] c = "5" -> 53
      [] c = "6" -> 54 [] c = "7" -> 55 [] c = "8" -> 56 [] c = "9" -> 57
      [] c = ":" -> 58

\* a < b on strings
StrLess(a, b) ==
    LET n == IF Len(a) < Len(b) THEN Len(a) ELSE Len(b)
        diff == {i \in 1..n : a[i] # b[i]}
    IN  IF diff = {} THEN Len(a) < Len(b)
        ELSE Ord(a[SetMin(diff)]) < Ord(b[SetMin(diff)])

----------------------------------------------------------------------------
(* extract_events_by_keywords *)

\* A component of a parsed calendar is a record
\*   [name, SUMMARY, DESCRIPTION, ATTENDEE, DTSTART, DTEND, LOCATION, UID].
\* ATTENDEE is [kind, vals]: kind "none" (get returns None), "one" (a single
\* address, vals has one element) or "list" (several ATTENDEE lines).

\* "if attendees:" - None, an empty address and an empty list are false
AttendeesTruthy(att) ==
    CASE att.kind = "none" -> FALSE
      [] att.kind = "one" -> att.vals[1] # <<>>
      [] att.kind = "list" -> att.vals # <<>>

\* attendee.to_ical().decode('utf-8').split(':')[1]
AttendeeIdent(raw) == Split(raw, Colon)[2]

\* the building of attendees_list; split(':')[1] raises IndexError on an
\* address without a colon
AttendeesList(att) ==
    IF ~AttendeesTruthy(att) THEN [err |-> "", list |-> <<>>]
    ELSE IF \E i \in 1..Len(att.vals) : Len(Split(att.vals[i], Colon)) < 2
         THEN [err |-> "IndexError", list |-> <<>>]
         ELSE [err |-> "",
               list |-> [i \in 1..Len(att.vals) |-> AttendeeIdent(att.vals[i])]]

\* the condition of the comprehension that builds matching_keywords
KeywordMatches(keyword, summary, description, attendees_list) ==
    \/ Contains(Lower(keyword), Lower(summary))
    \/ Contains(Lower(keyword), Lower(description))
    \/ \E i \in 1..Len(attendees_list) :
           Contains(Lower(keyword), Lower(attendees_list[i]))

MatchingKeywords(kws, summary, description, attendees_list) ==
    SelectSeq(kws, LAMBDA k : KeywordMatches(k, summary, description, attendees_list))

\* os.path.join(folder_path, filename), filename relative
PathJoin(a, b) ==
    IF a = <<>> \/ EndsWith(a, <<"/">>) THEN a \o b ELSE a \o <<"/">> \o b

\* the dictionary event_info
EventInfo(comp, path, summary, attendees_list, matching) ==
    [Event |-> summary,
     Start |-> Strftime(comp.DTSTART.val),
     End |-> Strftime(comp.DTEND.val),
     Guests |-> Join(attendees_list, CommaSpace),
     Location |-> PyStr(comp.LOCATION),
     UID |-> comp.UID,
     SourceFile |-> path,
     MatchedKeywords |-> matching]

\* A variant of ExtractComponent that formats DTSTART and DTEND before it
\* looks at the keywords.
ExtractComponentEagerTimes(comp, path, kws) ==
    IF comp.name # "VEVENT" THEN [err |-> "", events |-> <<>>]
    ELSE
      LET summary == PyStr(comp.SUMMARY)
          description == PyStr(comp.DESCRIPTION)
          al == AttendeesList(comp.ATTENDEE)
          matching == MatchingKeywords(kws, summary, description, al.list)
      IN  IF al.err # "" THEN [err |-> al.err, events |-> <<>>]
          ELSE IF ~comp.DTSTART.some \/ ~comp.DTEND.some
               THEN [err |-> "AttributeError", events |-> <<>>]
          ELSE IF matching = <<>> THEN [err |-> "", events |-> <<>>]
          ELSE [err |-> "",
                events |-> <<EventInfo(comp, path, summary, al.list, matching)>>]

\* the body of the loop over calendar.walk(): the error raised, if any, and
\* the events appended
ExtractComponent(comp, path, kws) ==
    IF comp.name # "VEVENT" THEN [err |-> "", events |-> <<>>]
    ELSE
      LET summary == PyStr(comp.SUMMARY)
          description == PyStr(comp.DESCRIPTION)
          al == AttendeesList(comp.ATTENDEE)
          matching == MatchingKeywords(kws, summary, description, al.list)
      IN  IF al.err # "" THEN [err |-> al.err, events |-> <<>>]
          ELSE IF matching = <<>> THEN [err |-> "", events |-> <<>>]
          ELSE IF ~comp.DTSTART.some \/ ~comp.DTEND.some
               THEN [err |-> "AttributeError", events |-> <<>>]
          ELSE [err |-> "",
                events |-> <<EventInfo(comp, path, summary, al.list, matching)>>]

RECURSIVE ExtractFrom(_, _, _)
ExtractFrom(comps, path, kws) ==
    IF comps = <<>> THEN [err |-> "", events |-> <<>>]
    ELSE LET r == ExtractComponent(Head(comps), path, kws)
         IN  IF r.err # "" THEN r
             ELSE LET rest == ExtractFrom(Tail(comps), path, kws)
                  IN  IF rest.err # "" THEN rest
                      ELSE [err |-> "", events |-> r.events \o rest.events]

\* Calendar.from_ical raises ValueError on a file that is not well formed
extract_events_by_keywords(file, path, kws) ==
    IF ~file.wellformed THEN [err |-> "ValueError", events |-> <<>>]
    ELSE ExtractFrom(file.comps, path, kws)

----------------------------------------------------------------------------
(* remove_duplicates_and_sort_events *)

EmptyMap == [x \in {} |-> 0]

\* d[key] += 1 on a defaultdict(int): the entry is created on first use
Inc(d, key) ==
    IF key \in DOMAIN d THEN [d EXCEPT ![key] = @ + 1]
    ELSE [x \in DOMAIN d \cup {key} |-> IF x = key THEN 1 ELSE d[x]]

\* A variant of TrackDuplicate that stops after the first keyword.
TrackFirstKeywordOnly(details, matched, file) ==
    IF matched = <<>> THEN details ELSE Inc(details, <<Head(matched), file>>)

RECURSIVE TrackDuplicate(_, _, _)
\* for keyword in event['MatchedKeywords']: duplicate_details[keyword][file] += 1
TrackDuplicate(details, matched, file) ==
    IF matched = <<>> THEN details
    ELSE TrackDuplicate(Inc(details, <<Head(matched), file>>), Tail(matched), file)

\* uid not in unique_events
UidIsNew(unique, uid) == \A i \in 1..Len(unique) : unique[i].UID # uid

\* A variant of DedupStep that counts inside the loop over the keywords.
DedupStepCountPerKeyword(acc, event) ==
    IF UidIsNew(acc.unique, event.UID)
    THEN [acc EXCEPT !.unique = Append(@, event)]
    ELSE [acc EXCEPT !.count = @ + Len(event.MatchedKeywords),
                     !.details = TrackDuplicate(@, event.MatchedKeywords,
                                                event.SourceFile)]

\* A variant of DedupStep that stores every record under its UID, so that
\* the last one with a UID stays.
DedupStepLastWins(acc, event) ==
    IF UidIsNew(acc.unique, event.UID)
    THEN [acc EXCEPT !.unique = Append(@, event)]
    ELSE [acc EXCEPT !.unique = [i \in 1..Len(@) |->
                                    IF @[i].UID = event.UID THEN event ELSE @[i]],
                     !.count = @ + 1,
                     !.details = TrackDuplicate(@, event.MatchedKeywords,
                                                event.SourceFile)]

\* one iteration of the loop over events; unique holds the values of the
\* dictionary unique_events in insertion order
DedupStep(acc, event) ==
    IF UidIsNew(acc.unique, event.UID)
    THEN [acc EXCEPT !.unique = Append(@, event)]
    ELSE [acc EXCEPT !.count = @ + 1,
                     !.details = TrackDuplicate(@, event.MatchedKeywords,
                                                event.SourceFile)]

RECURSIVE DedupLoop(_, _)
DedupLoop(acc, evs) ==
    IF evs = <<>> THEN acc ELSE DedupLoop(DedupStep(acc, Head(evs)), Tail(evs))

\* A variant of InsertPos for a sort that is not stable: x goes before the
\* elements with an equal Start.
InsertPosBeforeEqual(s, x) ==
    LET later == {i \in 1..Len(s) : ~StrLess(s[i].Start, x.Start)}
    IN  IF later = {} THEN Len(s) + 1 ELSE SetMin(later)

\* where sorted() puts x among the already sorted s: after every element
\* that is not greater (the sort is stable)
InsertPos(s, x) ==
    LET later == {i \in 1..Len(s) : StrLess(x.Start, s[i].Start)}
    IN  IF later = {} THEN Len(s) + 1 ELSE SetMin(later)

InsertSorted(s, x) ==
    LET p == InsertPos(s, x)
    IN  SubSeq(s, 1, p - 1) \o <<x>> \o SubSeq(s, p, Len(s))

RECURSIVE SortLoop(_, _)
SortLoop(done, rest) ==
    IF rest = <<>> THEN done
    ELSE SortLoop(InsertSorted(done, Head(rest)), Tail(rest))

\* sorted(values, key=lambda x: x['Start'])
Sorted(values) == SortLoop(<<>>, values)

remove_duplicates_and_sort_events(evs) ==
    LET acc == DedupLoop([unique |-> <<>>, count |-> 0, details |-> EmptyMap], evs)
    IN  [sorted_events |-> Sorted(acc.unique),
         duplicate_count |-> acc.count,
         duplicate_details |-> acc.details]

----------------------------------------------------------------------------
(* main: the counts and the two reports *)

RECURSIVE CountMatched(_, _)
\* for keyword in event['MatchedKeywords']: keyword_count[keyword] += 1
CountMatched(kc, matched) ==
    IF matched = <<>> THEN kc
    ELSE CountMatched([kc EXCEPT ![Head(matched)] = @ + 1], Tail(matched))

RECURSIVE CountLoop(_, _)
CountLoop(kc, evs) ==
    IF evs = <<>> THEN kc
    ELSE CountLoop(CountMatched(kc, Head(evs).MatchedKeywords), Tail(evs))

\* keyword_count = {keyword: 0 for keyword in keywords}, then the loop
KeywordCount(kws, evs) ==
    CountLoop([k \in {kws[i] : i \in 1..Len(kws)} |-> 0], evs)

EventLabel == <<"E", "v", "e", "n", "t", ":", " ">>
StartLabel == <<"S", "t", "a", "r", "t", ":", " ">>
EndLabel == <<"E", "n", "d", ":", " ">>
GuestsLabel == <<"G", "u", "e", "s", "t", "s", ":", " ">>
LocationLabel == <<"L", "o", "c", "a", "t", "i", "o", "n", ":", " ">>
NoEventsLine == <<"N", "o", " ", "e", "v", "e", "n", "t", "s", " ", "f", "o", "u", "n", "d", " ", "w", "i", "t", "h", " ", "t", "h", "e", " ", "s", "p", "e", "c", "i", "f", "i", "e", "d", " ", "k", "e", "y", "w", "o", "r", "d", "s", ".">>
RuleLength == 40
RuleLine == [i \in 1..RuleLength |-> "-"]

\* the six lines written for one event
TextBlock(event) ==
    <<EventLabel \o event.Event,
      StartLabel \o event.Start,
      EndLabel \o event.End,
      GuestsLabel \o event.Guests,
      LocationLabel \o event.Location,
      RuleLine>>

RECURSIVE TextBlocks(_)
TextBlocks(evs) ==
    IF evs = <<>> THEN <<>> ELSE TextBlock(Head(evs)) \o TextBlocks(Tail(evs))

\* the lines of merged_filtered_events.txt
TextReport(evs) == IF evs # <<>> THEN TextBlocks(evs) ELSE <<NoEventsLine>>

RECURSIVE IntStr(_)
\* str(n), n >= 0
IntStr(n) == IF n < 10 THEN <<Digit(n)>> ELSE IntStr(n \div 10) \o <<Digit(n % 10)>>

CsvHeader ==
    << <<"S", "t", "a", "r", "t">>,
       <<"E", "n", "d">>,
       <<"G", "u", "e", "s", "t", " ", "n", "u", "m", "b", "e", "r">>,
       <<"E", "v", "e", "n", "t", " ", "t", "i", "t", "l", "e", " ", "o", "r", " ", "s", "u", "m", "m", "a", "r", "y">>,
       <<"L", "o", "c", "a", "t", "i", "o", "n">>,
       <<"G", "u", "e", "s", "t", "s">> >>

\* guest_number = len(event['Guests'].split(', ')) if event['Guests'] else 0
GuestNumber(guests) == IF guests # <<>> THEN Len(Split(guests, CommaSpace)) ELSE 0

\* '\n'.join(event['Guests'].split(', '))
GuestsCell(guests) == Join(Split(guests, CommaSpace), Newline)

\* the cells handed to csv_writer.writerow for one event
CsvRow(event) ==
    <<event.Start, event.End, IntStr(GuestNumber(event.Guests)), event.Event,
      event.Location, GuestsCell(event.Guests)>>

\* the rows of merged_filtered_events.csv, as cells
CsvReport(evs) == <<CsvHeader>> \o [i \in 1..Len(evs) |-> CsvRow(evs[i])]

\* A variant of OpenForWriting: open(name, 'a') keeps what the file holds.
OpenForAppending(file) == [exists |-> TRUE, lines |-> file.lines]

\* open(name, 'w'): the file is created or truncated
OpenForWriting(file) == [exists |-> TRUE, lines |-> <<>>]

\* the writes that follow the open
WriteLines(file, lines) == [file EXCEPT !.lines = @ \o lines]

----------------------------------------------------------------------------
(* Inputs *)

SeqsUpTo(S, n) == UNION {[1..k -> S] : k \in 0..n}

\* args.folder_path
FolderPath == <<"s">>

T0 == [Y |-> 2024, M |-> 3, D |-> 9, h |-> 9, m |-> 5, s |-> 0]
T1 == [Y |-> 2024, M |-> 3, D |-> 10, h |-> 10, m |-> 0, s |-> 0]
T1s == [Y |-> 2024, M |-> 3, D |-> 10, h |-> 10, m |-> 0, s |-> 30]
T2 == [Y |-> 2024, M |-> 11, D |-> 2, h |-> 23, m |-> 59, s |-> 0]

NoAttendee == [kind |-> "none", vals |-> <<>>]
OneAttendee(raw) == [kind |-> "one", vals |-> <<raw>>]
ManyAttendees(raws) == [kind |-> "list", vals |-> raws]

Component(name, summary, description, attendee, dtstart, dtend, location, uid) ==
    [name |-> name, SUMMARY |-> summary, DESCRIPTION |-> description,
     ATTENDEE |-> attendee, DTSTART |-> dtstart, DTEND |-> dtend,
     LOCATION |-> location, UID |-> uid]

\* The components the folders of Spec are made of: two with the same UID and
\* different contents, two that format to the same Start, one without DTSTART.
Catalogue ==
    { Component("VEVENT", Some(<<"A", "b">>), Some(<<"x">>), NoAttendee,
                Some(T1), Some(T2), Some(<<"L">>), Some(<<"u", "1">>)),
      Component("VEVENT", Some(<<"b">>), Some(<<"x">>),
                ManyAttendees(<< <<"m", ":", "p">>, <<"m", ":", "q">> >>),
                Some(T0), Some(T1), Some(<<"K">>), Some(<<"u", "1">>)),
      Component("VEVENT", Some(<<"a">>), Some(<<"y">>), OneAttendee(<<"m", ":", "p">>),
                Some(T1s), Some(T2), Some(<<"L">>), Some(<<"u", "2">>)),
      Component("VEVENT", Some(<<"a">>), Some(<<"y">>), NoAttendee,
                None, Some(T2), Some(<<"L">>), Some(<<"u", "3">>)) }

Keywords == {<<"a">>, <<"B">>}
KeywordLists == SeqsUpTo(Keywords, MaxKeywords) \ {<<>>}

\* the name of the file in slot i of the listing
FileName(i, ext) == IntStr(i) \o ext
TxtSuffix == <<".", "t", "x", "t">>

\* what slot i of a listing can hold when at most budget components are left
FilesAt(i, budget) ==
    {[name |-> FileName(i, TxtSuffix), wellformed |-> TRUE, comps |-> <<>>],
     [name |-> FileName(i, IcsSuffix), wellformed |-> FALSE, comps |-> <<>>]}
    \cup {[name |-> FileName(i, IcsSuffix), wellformed |-> TRUE, comps |-> cs] :
            cs \in SeqsUpTo(Catalogue, budget)}

RECURSIVE FoldersFrom(_, _, _)
\* the listings of slots i..n that hold at most budget components
FoldersFrom(i, n, budget) ==
    IF i > n THEN {<<>>}
    ELSE UNION {{<<f>> \o rest : rest \in FoldersFrom(i + 1, n, budget - Len(f.comps))} :
                  f \in FilesAt(i, budget)}

Folders == UNION {FoldersFrom(1, n, MaxComps) : n \in 0..MaxFiles}

\* For the specification of one component: every combination of present and
\* absent properties, and the shapes of ATTENDEE.
OneSummaries == {Some(<<"A", "b">>), Some(<<"c">>)}
OneDescriptions == {None, Some(<<"b">>)}
OneAttendees ==
    { NoAttendee,
      OneAttendee(<<>>),
      OneAttendee(<<"a", "b">>),
      OneAttendee(<<"m", ":">>),
      OneAttendee(<<"m", ":", "a", "@", "x">>),
      ManyAttendees(<< <<"m", ":", "c">>, <<"m", ":", "a", ",", " ", "b">> >>),
      ManyAttendees(<< <<"m", ":", "c">>, <<"m", ":", "B">> >>) }
OneComponents ==
    { Component(n, su, de, at, ds, de2, lo, Some(<<"u">>)) :
        n \in {"VEVENT", "VTODO"}, su \in OneSummaries, de \in OneDescriptions,
        at \in OneAttendees, ds \in {None, Some(T1)}, de2 \in {None, Some(T2)},
        lo \in {None, Some(<<"L">>)} }
OneFolders ==
    {<<[name |-> FileName(1, IcsSuffix), wellformed |-> TRUE, comps |-> <<c>>]>> :
        c \in OneComponents}
OneKeywordLists == {<<<<"a">>>>, <<<<"o", "N">>>>, <<<<"B">>, <<"a">>>>, <<<<"a">>, <<"a">>>>}

\* the output files before the program ran: absent, or left by an earlier run
AbsentFile == [exists |-> FALSE, lines |-> <<>>]
Before ==
    {[txt |-> AbsentFile, csv |-> AbsentFile,
      duplicate_count |-> 0, duplicate_details |-> EmptyMap],
     [txt |-> [exists |-> TRUE, lines |-> <<NoEventsLine>>],
      csv |-> [exists |-> TRUE, lines |-> <<CsvHeader>>],
      duplicate_count |-> 0, duplicate_details |-> EmptyMap]}

----------------------------------------------------------------------------
(* The program *)

InitWith(folders, kwlists) ==
    /\ \/ readable = TRUE /\ folder \in folders
       \/ readable = FALSE /\ folder = <<>>
    /\ keywords \in kwlists
    /\ first \in Before
    /\ outTxt = first.txt
    /\ outCsv = first.csv
    /\ pc = "list"
    /\ fileIdx = 1
    /\ events = <<>>
    /\ sorted_events = <<>>
    /\ duplicate_count = 0
    /\ duplicate_details = EmptyMap
    /\ keyword_count = EmptyMap
    /\ error = ""
    /\ run = 1

Init == InitWith(Folders, KeywordLists)
InitOne == InitWith(OneFolders, OneKeywordLists)

\* os.listdir(folder_path) at the head of the loop of process_ics_files_in_folder
ListFolder ==
    /\ pc = "list"
    /\ IF readable
       THEN pc' = "extract" /\ error' = error
       ELSE pc' = "failed" /\ error' = "FileNotFoundError"
    /\ UNCHANGED <<readable, folder, keywords, fileIdx, events, sorted_events,
                   duplicate_count, duplicate_details, keyword_count, outTxt,
                   outCsv, run, first>>

\* one iteration of the loop over the listing
ProcessFile ==
    /\ pc = "extract"
    /\ fileIdx <= Len(folder)
    /\ LET file == folder[fileIdx]
           r == extract_events_by_keywords(file, PathJoin(FolderPath, file.name),
                                           keywords)
       IN  IF ~EndsWith(file.name, IcsSuffix)
           THEN /\ fileIdx' = fileIdx + 1
                /\ UNCHANGED <<events, pc, error>>
           ELSE IF r.err # ""
           THEN /\ pc' = "failed"
                /\ error' = r.err
                /\ UNCHANGED <<events, fileIdx>>
           ELSE /\ events' = events \o r.events
                /\ fileIdx' = fileIdx + 1
                /\ UNCHANGED <<pc, error>>
    /\ UNCHANGED <<readable, folder, keywords, sorted_events, duplicate_count,
                   duplicate_details, keyword_count, outTxt, outCsv, run, first>>

\* the loop is over: main calls remove_duplicates_and_sort_events
Deduplicate ==
    /\ pc = "extract"
    /\ fileIdx > Len(folder)
    /\ LET r == remove_duplicates_and_sort_events(events)
       IN  /\ sorted_events' = r.sorted_events
           /\ duplicate_count' = r.duplicate_count
           /\ duplicate_details' = r.duplicate_details
    /\ pc' = "count"
    /\ UNCHANGED <<readable, folder, keywords, fileIdx, events, keyword_count,
                   outTxt, outCsv, error, run, first>>

\* main computes and prints the counts
CountKeywords ==
    /\ pc = "count"
    /\ keyword_count' = KeywordCount(keywords, sorted_events)
    /\ pc' = "write"
    /\ UNCHANGED <<readable, folder, keywords, fileIdx, events, sorted_events,
                   duplicate_count, duplicate_details, outTxt, outCsv, error,
                   run, first>>

\* main writes the two files
WriteReports ==
    /\ pc = "write"
    /\ outTxt' = WriteLines(OpenForWriting(outTxt), TextReport(sorted_events))
    /\ outCsv' = WriteLines(OpenForWriting(outCsv), CsvReport(sorted_events))
    /\ pc' = "done"
    /\ UNCHANGED <<readable, folder, keywords, fileIdx, events, sorted_events,
                   duplicate_count, duplicate_details, keyword_count, error,
                   run, first>>

\* the program is started again on the same folder with the same keywords;
\* nothing but the two output files outlives a run
RunAgain ==
    /\ pc = "done"
    /\ run = 1
    /\ first' = [txt |-> outTxt, csv |-> outCsv,
                 duplicate_count |-> duplicate_count,
                 duplicate_details |-> duplicate_details]
    /\ run' = 2
    /\ pc' = "list"
    /\ fileIdx' = 1
    /\ events' = <<>>
    /\ sorted_events' = <<>>
    /\ duplicate_count' = 0
    /\ duplicate_details' = EmptyMap
    /\ keyword_count' = EmptyMap
    /\ UNCHANGED <<readable, folder, keywords, outTxt, outCsv, error>>

Next ==
    \/ ListFolder
    \/ ProcessFile
    \/ Deduplicate
    \/ CountKeywords
    \/ WriteReports
    \/ RunAgain

Spec == Init /\ [][Next]_vars
SpecOne == InitOne /\ [][Next]_vars

----------------------------------------------------------------------------
(* Properties of remove_duplicates_and_sort_events *)

\* remove_duplicates_and_sort_events has returned in the current run
Deduplicated == pc \in {"count", "write", "done"}

\* the positions of the input records that repeat an earlier UID
Discarded ==
    {i \in 1..Len(events) : \E j \in 1..(i - 1) : events[j].UID = events[i].UID}

\* the position of the first input record with this UID
FirstSeen(uid) == SetMin({j \in 1..Len(events) : events[j].UID = uid})

\* C1: the output is no longer than the input, and duplicate_count is
\* len(input) - len(output).
C1_DuplicateCount ==
    Deduplicated =>
        /\ Len(sorted_events) <= Len(events)
        /\ duplicate_count = Len(events) - Len(sorted_events)

C1_Witness ==
    /\ Deduplicated
    /\ Len(sorted_events) >= 1
    /\ duplicate_count >= 1
    /\ \E i \in Discarded : Len(events[i].MatchedKeywords) >= 2

\* C2: the UIDs of the output are pairwise distinct; for every UID of the
\* input the retained record is the first input record with that UID; every
\* later record with that UID is dropped and counted.
C2_FirstWins ==
    Deduplicated =>
        /\ \A i, j \in 1..Len(sorted_events) :
               i # j => sorted_events[i].UID # sorted_events[j].UID
        /\ \A i \in 1..Len(events) :
               \E k \in 1..Len(sorted_events) :
                   sorted_events[k] = events[FirstSeen(events[i].UID)]
        /\ \A k \in 1..Len(sorted_events) :
               \E i \in 1..Len(events) :
                   /\ i \notin Discarded
                   /\ sorted_events[k] = events[i]
        /\ duplicate_count = Cardinality(Discarded)

C2_Witness ==
    /\ Deduplicated
    /\ \E i \in Discarded :
           /\ events[FirstSeen(events[i].UID)].Event # events[i].Event
           /\ events[FirstSeen(events[i].UID)].Start # events[i].Start

\* C3: the output is in ascending order of Start under string comparison,
\* and retained events with the same Start keep the order in which they were
\* first seen in the input.
C3_SortedStable ==
    Deduplicated =>
        /\ \A i \in 1..(Len(sorted_events) - 1) :
               ~StrLess(sorted_events[i + 1].Start, sorted_events[i].Start)
        /\ \A i, j \in 1..Len(sorted_events) :
               (i < j /\ sorted_events[i].Start = sorted_events[j].Start)
                   => FirstSeen(sorted_events[i].UID) < FirstSeen(sorted_events[j].UID)

C3_Witness ==
    /\ Deduplicated
    /\ Len(sorted_events) = 2
    /\ sorted_events[1].Start = sorted_events[2].Start
    /\ sorted_events[1] # sorted_events[2]

\* the paths of the files of the folder
FilePaths == {PathJoin(FolderPath, folder[i].name) : i \in 1..Len(folder)}
KeywordSet == {keywords[i] : i \in 1..Len(keywords)}

\* the increments that discarded records of file f make for keyword k: one
\* for each occurrence of k in the MatchedKeywords of such a record
Increments(k, f) ==
    Cardinality({ip \in Discarded \X (1..Len(keywords)) :
                   /\ events[ip[1]].SourceFile = f
                   /\ ip[2] <= Len(events[ip[1]].MatchedKeywords)
                   /\ events[ip[1]].MatchedKeywords[ip[2]] = k})

\* C5: duplicate_details[k][f] is the number of increments made by the
\* discarded records of file f, one per occurrence of k in their
\* MatchedKeywords; retained records add nothing and no entry is zero.
C5_DuplicateDetails ==
    Deduplicated =>
        /\ DOMAIN duplicate_details \subseteq KeywordSet \X FilePaths
        /\ \A k \in KeywordSet, f \in FilePaths :
               IF Increments(k, f) = 0
               THEN <<k, f>> \notin DOMAIN duplicate_details
               ELSE /\ <<k, f>> \in DOMAIN duplicate_details
                    /\ duplicate_details[<<k, f>>] = Increments(k, f)

C5_Witness ==
    /\ Deduplicated
    /\ Len(sorted_events) >= 1
    /\ \E key \in DOMAIN duplicate_details : duplicate_details[key] >= 2
    /\ \E k \in KeywordSet, f \in FilePaths : <<k, f>> \notin DOMAIN duplicate_details

----------------------------------------------------------------------------
(* Properties of main *)

\* C6: the count reported for each input keyword is the number of retained
\* events whose MatchedKeywords contains that keyword.
C6_KeywordCount ==
    pc \in {"write", "done"} =>
        \A k \in KeywordSet :
            keyword_count[k] =
                Cardinality({i \in 1..Len(sorted_events) :
                    \E p \in 1..Len(sorted_events[i].MatchedKeywords) :
                        sorted_events[i].MatchedKeywords[p] = k})

\* C7: a second run on the unchanged folder with the same keywords leaves
\* the same text file, the same CSV file, the same duplicate_count and the
\* same duplicate breakdown as the first run.
C7_SecondRunSame ==
    (run = 2 /\ pc = "done") =>
        /\ outTxt = first.txt
        /\ outCsv = first.csv
        /\ duplicate_count = first.duplicate_count
        /\ duplicate_details = first.duplicate_details

C7_Witness ==
    /\ run = 2
    /\ pc = "done"
    /\ Len(sorted_events) >= 1
    /\ duplicate_count >= 1
    /\ Len(outTxt.lines) >= 6

\* the component at position i of the file being processed raises
\* AttributeError: it is an event that a keyword matches and has no DTSTART
\* or no DTEND
MatchedWithoutTime(comp) ==
    /\ comp.name = "VEVENT"
    /\ ~comp.DTSTART.some \/ ~comp.DTEND.some
    /\ \E i \in 1..Len(keywords) :
           KeywordMatches(keywords[i], PyStr(comp.SUMMARY), PyStr(comp.DESCRIPTION),
                          AttendeesList(comp.ATTENDEE).list)

\* C10: a run that fails while listing or extracting stops there: no later
\* file is processed and neither output file is created or modified; only an
\* event that a keyword matches fails for want of a start or end time.
C10_FailureWritesNothing ==
    pc = "failed" =>
        /\ outTxt = first.txt
        /\ outCsv = first.csv
        /\ ~ENABLED Next
        /\ error # ""
        /\ error = "FileNotFoundError" => ~readable
        /\ error # "FileNotFoundError" =>
               /\ fileIdx <= Len(folder)
               /\ \A i \in 1..Len(events) :
                      events[i].SourceFile # PathJoin(FolderPath, folder[fileIdx].name)
        /\ error = "AttributeError" =>
               \E i \in 1..Len(folder[fileIdx].comps) :
                   MatchedWithoutTime(folder[fileIdx].comps[i])

C10_Witness ==
    /\ pc = "failed"
    /\ error = "AttributeError"
    /\ fileIdx < Len(folder)
    /\ EndsWith(folder[fileIdx + 1].name, IcsSuffix)
    /\ folder[fileIdx + 1].comps # <<>>
    /\ outTxt.exists
    /\ outCsv.exists

----------------------------------------------------------------------------
(* Properties of extract_events_by_keywords, on a folder of one file that *)
(* holds one component                                                    *)

\* the component of the file
TheComponent == folder[1].comps[1]

\* the only file has been extracted without an error
Extracted == Len(folder) = 1 /\ fileIdx = 2 /\ TheComponent.name = "VEVENT"

\* the keyword is a case-insensitive substring of the title, of the
\* description or of one attendee identifier of the component; a property
\* that is absent holds no text
InEventText(k, comp) ==
    \/ comp.SUMMARY.some /\ Contains(Lower(k), Lower(comp.SUMMARY.val))
    \/ comp.DESCRIPTION.some /\ Contains(Lower(k), Lower(comp.DESCRIPTION.val))
    \/ \E i \in 1..Len(AttendeesList(comp.ATTENDEE).list) :
           Contains(Lower(k), Lower(AttendeesList(comp.ATTENDEE).list[i]))

\* C4: the event is included if and only if a keyword is a case-insensitive
\* substring of its title, its description or one of its attendee
\* identifiers, and MatchedKeywords is the sub-sequence of the keyword list
\* that passes this test, in order and with repeats.
C4_MatchTest ==
    Extracted =>
        LET expected == SelectSeq(keywords, LAMBDA k : InEventText(k, TheComponent))
        IN  /\ (events # <<>>) <=> (expected # <<>>)
            /\ events # <<>> => events[1].MatchedKeywords = expected

\* C8: an absent description, location or attendee list is never fatal and
\* counts as empty: no keyword match from the description, no guests, and an
\* empty location in the record.
C8_AbsentIsEmpty ==
    /\ (pc = "failed" /\ error # "FileNotFoundError") =>
           \/ error = "IndexError" /\ TheComponent.ATTENDEE.kind # "none"
           \/ error = "AttributeError"
                /\ (~TheComponent.DTSTART.some \/ ~TheComponent.DTEND.some)
    /\ (Extracted /\ events # <<>>) =>
           /\ ~TheComponent.LOCATION.some => events[1].Location = <<>>
           /\ TheComponent.ATTENDEE.kind = "none" => events[1].Guests = <<>>
           /\ ~TheComponent.DESCRIPTION.some =>
                  \A i \in 1..Len(events[1].MatchedKeywords) :
                      InEventText(events[1].MatchedKeywords[i], TheComponent)

\* C9: the CSV row of a retained event has a Guest number equal to the
\* number of attendee identifiers extracted for it, and a Guests cell that
\* holds those identifiers one per line.
C9_GuestNumber ==
    (Extracted /\ pc = "done" /\ Len(sorted_events) = 1) =>
        LET list == AttendeesList(TheComponent.ATTENDEE).list
            row == outCsv.lines[2]
        IN  /\ row[3] = IntStr(Len(list))
            /\ row[6] = Join(list, Newline)

====
